---------------------------- MODULE Spec2Model ----------------------------
(***************************************************************************)
(* The request orchestration of the medical chatbot backend (src/app.py):  *)
(* the /api/stream, /api/chat and /api/clear handlers, the token generator *)
(* of the streaming response, the disclaimer classifier and the bounded    *)
(* per-session conversation history.                                       *)
(*                                                                         *)
(* Text is a sequence of one-character strings, so that strip(), lower(),  *)
(* substring tests, concatenation and suffixes are computed as the code    *)
(* computes them.                                                          *)
(*                                                                         *)
(* `session` is Flask's default session (app.py:4, app.py:20 sets the      *)
(* secret key and no other session interface is installed): a signed       *)
(* cookie held by the browser.  A request works on its own session object, *)
(* loaded from the cookie it carries, and the object is written back into  *)
(* the response's Set-Cookie header when the view function returns its     *)
(* response.  For /api/stream the view returns the Response at app.py:159, *)
(* before generate() has run a single step.                                *)
(***************************************************************************)
EXTENDS Integers, Sequences, FiniteSets, TLC

(***************************************************************************)
(* Bounds of the model.                                                    *)
(***************************************************************************)
MaxRequests == 2   \* requests issued in one behaviour

(***************************************************************************)
(* Program constants.                                                      *)
(***************************************************************************)
HistoryCap == 20   \* "Keep last 20 messages"
HistoryWindow == 6 \* "last 6 messages = 3 exchanges"

Sessions == {"s1", "s2"}

(***************************************************************************)
(* Text constants of src/src/prompt.py and src/app.py.                     *)
(***************************************************************************)
DISCLAIMER_TEXT ==
    <<"\n", "-", "-", "-", "\n", ">", " ", "*", "*", "I", "m", "p", "o",
      "r", "t", "a", "n", "t", ":", "*", "*", " ", "T", "h", "i", "s", " ",
      "i", "n", "f", "o", "r", "m", "a", "t", "i", "o", "n", " ", "i", "s",
      " ", "f", "o", "r", " ", "e", "d", "u", "c", "a", "t", "i", "o", "n",
      "a", "l", " ", "p", "u", "r", "p", "o", "s", "e", "s", " ", "o", "n",
      "l", "y", " ", "a", "n", "d", " ", "d", "o", "e", "s", " ", "n", "o",
      "t", " ", "r", "e", "p", "l", "a", "c", "e", " ", "p", "r", "o", "f",
      "e", "s", "s", "i", "o", "n", "a", "l", " ", "m", "e", "d", "i", "c",
      "a", "l", " ", "a", "d", "v", "i", "c", "e", ".", " ", "F", "o", "r",
      " ", "p", "e", "r", "s", "o", "n", "a", "l", "i", "z", "e", "d", " ",
      "d", "i", "a", "g", "n", "o", "s", "i", "s", " ", "a", "n", "d", " ",
      "t", "r", "e", "a", "t", "m", "e", "n", "t", ",", " ", "p", "l", "e",
      "a", "s", "e", " ", "c", "o", "n", "s", "u", "l", "t", " ", "a", " ",
      "q", "u", "a", "l", "i", "f", "i", "e", "d", " ", "h", "e", "a", "l",
      "t", "h", "c", "a", "r", "e", " ", "p", "r", "o", "v", "i", "d", "e",
      "r", ".", "\n">>

\* the dash of the source text is an em dash
NoDocumentsText ==
    <<"N", "o", " ", "s", "p", "e", "c", "i", "f", "i", "c", " ", "m", "e",
      "d", "i", "c", "a", "l", " ", "d", "o", "c", "u", "m", "e", "n", "t",
      "s", " ", "a", "v", "a", "i", "l", "a", "b", "l", "e", " ", "-", " ",
      "r", "e", "l", "y", " ", "o", "n", " ", "y", "o", "u", "r", " ", "t",
      "r", "a", "i", "n", "i", "n", "g", " ", "k", "n", "o", "w", "l", "e",
      "d", "g", "e", ".">>

NoHistoryText ==
    <<"N", "o", " ", "p", "r", "e", "v", "i", "o", "u", "s", " ", "c", "o",
      "n", "v", "e", "r", "s", "a", "t", "i", "o", "n", ".">>

StreamKeywords ==
    <<<<"d", "i", "a", "g", "n", "o", "s", "e">>,
      <<"t", "r", "e", "a", "t", "m", "e", "n", "t">>,
      <<"m", "e", "d", "i", "c", "i", "n", "e">>,
      <<"d", "r", "u", "g">>,
      <<"s", "y", "m", "p", "t", "o", "m">>,
      <<"p", "a", "i", "n">>,
      <<"s", "i", "c", "k">>,
      <<"d", "i", "s", "e", "a", "s", "e">>,
      <<"i", "n", "f", "e", "c", "t", "i", "o", "n">>,
      <<"f", "e", "v", "e", "r">>,
      <<"c", "a", "n", "c", "e", "r">>>>

ChatKeywords ==
    <<<<"d", "i", "a", "g", "n", "o", "s", "e">>,
      <<"t", "r", "e", "a", "t", "m", "e", "n", "t">>,
      <<"m", "e", "d", "i", "c", "i", "n", "e">>,
      <<"d", "r", "u", "g">>,
      <<"s", "y", "m", "p", "t", "o", "m">>,
      <<"p", "a", "i", "n">>,
      <<"s", "i", "c", "k">>,
      <<"d", "i", "s", "e", "a", "s", "e">>,
      <<"i", "n", "f", "e", "c", "t", "i", "o", "n">>,
      <<"f", "e", "v", "e", "r">>,
      <<"c", "a", "n", "c", "e", "r">>>>

User == <<"U", "s", "e", "r">>
Assistant == <<"A", "s", "s", "i", "s", "t", "a", "n", "t">>

(***************************************************************************)
(* Python string operations.                                               *)
(***************************************************************************)
Whitespace == {" ", "\t", "\n", "\r"}

UpperCase ==
    <<"A", "B", "C", "D", "E", "F", "G", "H", "I", "J", "K", "L", "M",
      "N", "O", "P", "Q", "R", "S", "T", "U", "V", "W", "X", "Y", "Z">>

LowerCase ==
    <<"a", "b", "c", "d", "e", "f", "g", "h", "i", "j", "k", "l", "m",
      "n", "o", "p", "q", "r", "s", "t", "u", "v", "w", "x", "y", "z">>

RECURSIVE LStrip(_)
LStrip(s) ==
    IF s = <<>> THEN s
    ELSE IF Head(s) \in Whitespace THEN LStrip(Tail(s)) ELSE s

RECURSIVE RStrip(_)
RStrip(s) ==
    IF s = <<>> THEN s
    ELSE IF s[Len(s)] \in Whitespace THEN RStrip(SubSeq(s, 1, Len(s) - 1)) ELSE s

Strip_Nothing(s) == s

\* str.strip()
Strip(s) == RStrip(LStrip(s))

LowerChar(c) ==
    IF \E i \in 1..Len(UpperCase) : UpperCase[i] = c
    THEN LowerCase[CHOOSE i \in 1..Len(UpperCase) : UpperCase[i] = c]
    ELSE c

\* str.lower()
Lower(s) == [i \in 1..Len(s) |-> LowerChar(s[i])]

\* kw in s
Contains(kw, s) ==
    \E i \in 1..(Len(s) - Len(kw) + 1) : SubSeq(s, i, i + Len(kw) - 1) = kw

\* s[-n:] for n > 0
LastN(s, n) == IF Len(s) > n THEN SubSeq(s, Len(s) - n + 1, Len(s)) ELSE s

RECURSIVE Join(_, _)
\* sep.join(parts)
Join(sep, parts) ==
    IF parts = <<>> THEN <<>>
    ELSE IF Len(parts) = 1 THEN parts[1]
    ELSE parts[1] \o sep \o Join(sep, Tail(parts))

(***************************************************************************)
(* Inputs: request bodies, completion-service output, retrieval output.    *)
(***************************************************************************)
Hello == <<"H", "e", "l", "l", "o">>
World == <<" ", "w", "o", "r", "l", "d">>

\* llm.stream: the contents of the chunks it produces, in order; it may raise
\* before any of them.  A chunk of empty content is skipped by generate().
StreamOutputs == {<<Hello, World>>, <<<<>>>>}

MsgEmpty == <<>>
MsgBlank == <<" ", "\n">>
MsgHi == <<"h", "i">>
MsgPain == <<" ", "P", "a", "I", "n", " ">>

Messages == {MsgEmpty, MsgBlank, MsgHi, MsgPain}

\* the JSON body of a POST: an object with a string "message", an object
\* without the key, an object whose "message" is no string, or no JSON object
Bodies ==
    {[kind |-> "message", message |-> m] : m \in Messages}
        \cup {[kind |-> "nokey", message |-> <<>>],
              [kind |-> "nonstring", message |-> <<>>],
              [kind |-> "malformed", message |-> <<>>]}

Doc1 == <<"d", "1">>
Doc2 == <<"d", "2">>

\* similarity_search: raises, or returns the ranked documents
SearchOutcomes ==
    {[raises |-> TRUE, docs |-> <<>>],
     [raises |-> FALSE, docs |-> <<Doc1, Doc2>>]}

\* llm_no_stream.invoke: raises, or returns the complete response
InvokeOutcomes ==
    {[raises |-> TRUE, content |-> <<>>],
     [raises |-> FALSE, content |-> Hello \o World]}

ErrorText == "rate limit exceeded"

(***************************************************************************)
(* State.                                                                  *)
(***************************************************************************)
VARIABLES
    llm,          \* TRUE iff llm and llm_no_stream were initialised (not None)
    vector_store, \* TRUE iff vector_store was initialised (not None)
    cookie,       \* cookie[s]: the session as the browser of session s holds it
    req,          \* the request being served, or the last one served
    nreq,         \* requests issued so far
    other         \* a /api/chat request served by a second worker thread

vars == <<llm, vector_store, cookie, req, nreq, other>>

\* a turn of the history: {'role': ..., 'content': ...}; xid is a history
\* tag (the number of the request that stored the turn) that no code reads
Turn(role, content, xid) == [role |-> role, content |-> content, xid |-> xid]

NoSession == [present |-> FALSE, conversation_history |-> <<>>]

\* session.get("conversation_history", [])
History(sess) == IF sess.present THEN sess.conversation_history ELSE <<>>

KeepLast_NoCap(h) == h

KeepLast_Oldest(h) == IF Len(h) > HistoryCap THEN SubSeq(h, 1, HistoryCap) ELSE h

KeepLast_OneLess(h) == IF Len(h) > HistoryCap THEN LastN(h, HistoryCap - 1) ELSE h

\* if len(h) > 20: h = h[-20:]
KeepLast(h) == IF Len(h) > HistoryCap THEN LastN(h, HistoryCap) ELSE h

SaveHistory_AssistantFirst(h, user_message, response, xid) ==
    KeepLast(Append(Append(h, Turn(Assistant, response, xid)),
                    Turn(User, user_message, xid)))

\* the two appends and the cap that follow a successful exchange
SaveHistory(h, user_message, response, xid) ==
    KeepLast(Append(Append(h, Turn(User, user_message, xid)),
                    Turn(Assistant, response, xid)))

\* if 'conversation_history' not in session: session['conversation_history'] = []
EnsureHistory(sess) ==
    IF sess.present THEN sess ELSE [present |-> TRUE, conversation_history |-> <<>>]

NeedsDisclaimerStream_CaseSensitive(user_message) ==
    \E k \in 1..Len(StreamKeywords) : Contains(StreamKeywords[k], user_message)

NeedsDisclaimerStream(user_message) ==
    \E k \in 1..Len(StreamKeywords) : Contains(StreamKeywords[k], Lower(user_message))

NeedsDisclaimerChat_CaseSensitive(user_message) ==
    \E k \in 1..Len(ChatKeywords) : Contains(ChatKeywords[k], user_message)

NeedsDisclaimerChat(user_message) ==
    \E k \in 1..Len(ChatKeywords) : Contains(ChatKeywords[k], Lower(user_message))

retrieve_relevant_context_LeaksError(outcome) ==
    IF outcome.raises THEN <<"E", "r", "r", "o", "r">>
    ELSE Join(<<"\n", "\n">>, [i \in 1..Len(outcome.docs) |-> outcome.docs[i]])

\* helper.py: the search result joined by blank lines, "" on any failure
retrieve_relevant_context(outcome) ==
    IF outcome.raises THEN <<>> ELSE Join(<<"\n", "\n">>, [i \in 1..Len(outcome.docs) |-> outcome.docs[i]])

RECURSIVE RenderHistory(_)
\* chat_history += f"{msg['role']}: {msg['content']}\n"
RenderHistory(h) ==
    IF h = <<>> THEN <<>>
    ELSE Head(h).role \o <<":", " ">> \o Head(h).content \o <<"\n">>
             \o RenderHistory(Tail(h))

get_context_and_history_AllTurns(sess, outcome) ==
    [context |-> IF vector_store THEN retrieve_relevant_context(outcome) ELSE <<>>,
     chat_history |-> RenderHistory(History(sess))]

\* the pair (context, chat_history)
get_context_and_history(sess, outcome) ==
    [context |-> IF vector_store THEN retrieve_relevant_context(outcome) ELSE <<>>,
     chat_history |-> RenderHistory(LastN(History(sess), HistoryWindow))]

\* the two messages sent to the completion service; the human message is the
\* fixed template with its three slots filled
build_messages(user_message, context, chat_history) ==
    <<[type |-> "system", content |-> "MEDICAL_SYSTEM_PROMPT"],
      [type |-> "human",
       context |-> IF context # <<>> THEN context ELSE NoDocumentsText,
       chat_history |-> IF chat_history # <<>> THEN chat_history ELSE NoHistoryText,
       question |-> user_message]>>

\* data.get('message', '') : raises when the body is no object
HasMessage(body) == body.kind \in {"message", "nokey"}

(***************************************************************************)
(* A request.  pc: "none" before the first request, "streaming" while      *)
(* generate() iterates llm.stream, "disclaimer" while it is suspended at   *)
(* the yield of the disclaimer event, "done" while it is suspended at the  *)
(* yield of the done event, "complete" once the response (and, for a       *)
(* stream, the event sequence) has ended, "aborted" once the generator was *)
(* closed because the client went away.                                    *)
(* pre, prev, retrieval, produced and overlap record what the request      *)
(* found, what its collaborators did and which request it ran alongside;   *)
(* no code reads them.                                                     *)
(***************************************************************************)
NoRequest ==
    [pc |-> "none", endpoint |-> "none", sid |-> "s1", xid |-> 0,
     prev |-> [endpoint |-> "none", sid |-> "s1"],
     body |-> [kind |-> "nokey", message |-> <<>>], user_message |-> <<>>,
     pre |-> NoSession, session |-> NoSession,
     searches |-> 0, retrieval |-> "none", llm_calls |-> 0, messages |-> <<>>,
     stream |-> <<>>, produced |-> <<>>, full_response |-> <<>>, events |-> <<>>,
     status |-> 0, response |-> [success |-> FALSE], raised |-> FALSE,
     overlap |-> 0]

NewRequest(endpoint, s, body) ==
    [NoRequest EXCEPT !.pc = "complete", !.endpoint = endpoint, !.sid = s,
                      !.xid = nreq + 1,
                      !.prev = [endpoint |-> req.endpoint, sid |-> req.sid],
                      !.body = body,
                      !.pre = cookie[s], !.session = cookie[s]]

Idle == req.pc \in {"none", "complete", "aborted"}

\* an exchange k of the initial history
InitialTurns(n) ==
    [i \in 1..(2 * n) |->
        IF i % 2 = 1 THEN Turn(User, MsgHi, 0 - ((i + 1) \div 2))
        ELSE Turn(Assistant, IF i % 4 = 0 THEN Hello ELSE Hello \o World, 0 - (i \div 2))]

InitialSessions ==
    {NoSession,
     [present |-> TRUE, conversation_history |-> InitialTurns(9)],
     [present |-> TRUE, conversation_history |-> InitialTurns(10)]}

Init ==
    /\ llm \in BOOLEAN
    /\ vector_store \in BOOLEAN
    /\ cookie \in {c \in [Sessions -> InitialSessions] : c["s2"] = NoSession}
    /\ nreq = 0
    /\ req = NoRequest
    /\ other = NoRequest

(***************************************************************************)
(* Responses of the two chat endpoints before any collaborator is called.  *)
(***************************************************************************)
Unavailable(r) ==
    [r EXCEPT !.status = 503,
              !.response = [success |-> FALSE, error |-> "AI service is not available"]]

EmptyMessage_AsFailure(r) ==
    [r EXCEPT !.status = 500,
              !.response = [success |-> FALSE, error |-> "Message cannot be empty"]]

EmptyMessage(r) ==
    [r EXCEPT !.status = 400,
              !.response = [success |-> FALSE, error |-> "Message cannot be empty"]]

\* except Exception of stream_chat
StreamFailed(r) ==
    [r EXCEPT !.status = 500, !.raised = TRUE,
              !.response = [success |-> FALSE, error |-> "An error occurred"]]

ChatFailed_KeepsQuestion(r) ==
    [r EXCEPT !.status = 500, !.raised = TRUE,
              !.session.conversation_history =
                  Append(@, Turn(User, r.user_message, r.xid)),
              !.response = [success |-> FALSE, error |-> <<"Error: ", ErrorText>>]]

\* except Exception of chat
ChatFailed(r) ==
    [r EXCEPT !.status = 500, !.raised = TRUE,
              !.response = [success |-> FALSE, error |-> <<"Error: ", ErrorText>>]]

\* the state of a request once the message is validated, the session
\* history exists, and context, history text and messages are built
Prepared(r, search) ==
    LET user_message == Strip(r.body.message)
        sess == EnsureHistory(r.session)
        ch == get_context_and_history(sess, search)
    IN [r EXCEPT !.user_message = user_message,
                 !.session = sess,
                 !.searches = IF vector_store THEN 1 ELSE 0,
                 !.retrieval = IF ~vector_store THEN "unavailable"
                               ELSE IF search.raises THEN "raised" ELSE "found",
                 !.messages = build_messages(user_message, ch.context, ch.chat_history)]

(***************************************************************************)
(* POST /api/chat: the whole handler.                                      *)
(***************************************************************************)
ChatAnswered(r, invoke) ==
    LET ai_response ==
            IF NeedsDisclaimerChat(r.user_message)
            THEN invoke.content \o DISCLAIMER_TEXT ELSE invoke.content
    IN [r EXCEPT !.llm_calls = 1,
                 !.produced = <<invoke.content>>,
                 !.full_response = ai_response,
                 !.session.conversation_history =
                     SaveHistory(@, r.user_message, ai_response, r.xid),
                 !.status = 200,
                 !.response = [success |-> TRUE, response |-> ai_response]]

\* the view function, run on a request r whose session is loaded
chat_view(r, search, invoke) ==
    IF ~llm THEN Unavailable(r)
    ELSE IF ~HasMessage(r.body) THEN ChatFailed(r)
    ELSE IF Strip(r.body.message) = <<>> THEN EmptyMessage(r)
    ELSE IF invoke.raises THEN ChatFailed([Prepared(r, search) EXCEPT !.llm_calls = 1])
    ELSE ChatAnswered(Prepared(r, search), invoke)

chat(s, body, search, invoke) == chat_view(NewRequest("chat", s, body), search, invoke)

Chat ==
    /\ Idle
    /\ nreq < MaxRequests
    /\ \E s \in Sessions, body \in Bodies, search \in SearchOutcomes,
          invoke \in InvokeOutcomes :
           /\ req' = chat(s, body, search, invoke)
           /\ cookie' = [cookie EXCEPT ![s] = req'.session]
    /\ nreq' = nreq + 1
    /\ UNCHANGED <<llm, vector_store, other>>

(***************************************************************************)
(* POST /api/clear.                                                        *)
(***************************************************************************)
clear_conversation_FailsWhenEmpty(s) ==
    IF cookie[s].present /\ cookie[s].conversation_history = <<>>
    THEN [NewRequest("clear", s, [kind |-> "nokey", message |-> <<>>])
             EXCEPT !.status = 500, !.raised = TRUE,
                    !.response = [success |-> FALSE, error |-> ErrorText]]
    ELSE [NewRequest("clear", s, [kind |-> "nokey", message |-> <<>>])
             EXCEPT !.session = [present |-> TRUE, conversation_history |-> <<>>],
                    !.status = 200,
                    !.response = [success |-> TRUE, message |-> "Conversation cleared"]]

clear_conversation(s) ==
    [NewRequest("clear", s, [kind |-> "nokey", message |-> <<>>])
        EXCEPT !.session = [present |-> TRUE, conversation_history |-> <<>>],
               !.status = 200,
               !.response = [success |-> TRUE, message |-> "Conversation cleared"]]

ClearConversation_AllSessions ==
    /\ Idle
    /\ nreq < MaxRequests
    /\ \E s \in Sessions :
           /\ req' = clear_conversation(s)
           /\ cookie' = [t \in Sessions |-> req'.session]
    /\ nreq' = nreq + 1
    /\ UNCHANGED <<llm, vector_store, other>>

ClearConversation ==
    /\ Idle
    /\ nreq < MaxRequests
    /\ \E s \in Sessions :
           /\ req' = clear_conversation(s)
           /\ cookie' = [cookie EXCEPT ![s] = req'.session]
    /\ nreq' = nreq + 1
    /\ UNCHANGED <<llm, vector_store, other>>

(***************************************************************************)
(* POST /api/stream: the view function, up to the return of the Response.  *)
(* The session is saved into the cookie as the response is returned.       *)
(***************************************************************************)
stream_chat(s, body, search, output) ==
    LET r == NewRequest("stream", s, body)
    IN IF ~llm THEN Unavailable(r)
       ELSE IF ~HasMessage(body) THEN StreamFailed(r)
       ELSE IF Strip(body.message) = <<>> THEN EmptyMessage(r)
       ELSE [Prepared(r, search) EXCEPT !.pc = "streaming", !.status = 200,
                                        !.stream = output,
                                        !.response = [success |-> TRUE]]

StreamChat ==
    /\ Idle
    /\ nreq < MaxRequests
    /\ \E s \in Sessions, body \in Bodies, search \in SearchOutcomes,
          output \in StreamOutputs :
           /\ req' = stream_chat(s, body, search, output)
           /\ cookie' = [cookie EXCEPT ![s] = req'.session]
    /\ nreq' = nreq + 1
    /\ UNCHANGED <<llm, vector_store, other>>

(***************************************************************************)
(* generate(): the steps of the generator, from one yield to the next.     *)
(* The session object it changes is the request's; the cookie was written  *)
(* when the Response was returned.                                         *)
(***************************************************************************)
TokenEvent(token) == [token |-> token]
DoneEvent == [done |-> TRUE]
ErrorEvent(e) == [error |-> e]

OnChunk_Cumulative(r, token) ==
    IF token # <<>>
    THEN [r EXCEPT !.stream = Tail(@),
                   !.produced = Append(@, token),
                   !.full_response = @ \o token,
                   !.events = Append(@, [token |-> r.full_response \o token])]
    ELSE [r EXCEPT !.stream = Tail(@), !.produced = Append(@, token)]

\* one chunk of llm.stream: an empty token is skipped, any other is
\* accumulated and yielded as its own event
OnChunk(r, token) ==
    IF token # <<>>
    THEN [r EXCEPT !.stream = Tail(@),
                   !.produced = Append(@, token),
                   !.full_response = @ \o token,
                   !.events = Append(@, TokenEvent(token))]
    ELSE [r EXCEPT !.stream = Tail(@), !.produced = Append(@, token)]

\* the history is saved and the done event is yielded
OnSave(r) ==
    [r EXCEPT !.session.conversation_history =
                  SaveHistory(@, r.user_message, r.full_response, r.xid),
              !.events = Append(@, DoneEvent),
              !.pc = "done"]

\* llm.stream is exhausted
OnExhausted(r) ==
    IF NeedsDisclaimerStream(r.user_message)
    THEN [r EXCEPT !.full_response = @ \o DISCLAIMER_TEXT,
                   !.events = Append(@, TokenEvent(DISCLAIMER_TEXT)),
                   !.pc = "disclaimer"]
    ELSE OnSave(r)

OnStreamError_ThenDone(r) ==
    [r EXCEPT !.raised = TRUE,
              !.events = @ \o <<[error |-> ErrorText], [done |-> TRUE]>>,
              !.pc = "complete"]

OnStreamError_SavesPartial(r) ==
    [r EXCEPT !.raised = TRUE,
              !.session.conversation_history =
                  SaveHistory(@, r.user_message, r.full_response, r.xid),
              !.events = Append(@, [error |-> ErrorText]),
              !.pc = "complete"]

\* except Exception of generate()
OnStreamError(r) ==
    [r EXCEPT !.raised = TRUE,
              !.events = Append(@, ErrorEvent(ErrorText)),
              !.pc = "complete"]

GenChunk ==
    /\ req.pc = "streaming"
    /\ req.stream # <<>>
    /\ req' = OnChunk([req EXCEPT !.llm_calls = 1], Head(req.stream))
    /\ UNCHANGED <<llm, vector_store, cookie, nreq, other>>

GenExhausted ==
    /\ req.pc = "streaming"
    /\ req.stream = <<>>
    /\ req' = OnExhausted([req EXCEPT !.llm_calls = 1])
    /\ UNCHANGED <<llm, vector_store, cookie, nreq, other>>

GenRaise ==
    /\ req.pc = "streaming"
    /\ req' = OnStreamError([req EXCEPT !.llm_calls = 1])
    /\ UNCHANGED <<llm, vector_store, cookie, nreq, other>>

GenSave ==
    /\ req.pc = "disclaimer"
    /\ req' = OnSave(req)
    /\ UNCHANGED <<llm, vector_store, cookie, nreq, other>>

\* the generator is resumed after the done event and returns
GenReturn ==
    /\ req.pc = "done"
    /\ req' = [req EXCEPT !.pc = "complete"]
    /\ UNCHANGED <<llm, vector_store, cookie, nreq, other>>

\* the client goes away: the generator is closed at the yield where it is
\* suspended (GeneratorExit is no Exception, the except branch does not run)
OnClose(r) == [r EXCEPT !.pc = "aborted"]

Disconnect ==
    /\ req.pc \in {"streaming", "disclaimer", "done"}
    /\ req' = OnClose(req)
    /\ UNCHANGED <<llm, vector_store, cookie, nreq, other>>

Next ==
    \/ StreamChat
    \/ GenChunk
    \/ GenExhausted
    \/ GenRaise
    \/ GenSave
    \/ GenReturn
    \/ Disconnect
    \/ Chat
    \/ ClearConversation

Spec == Init /\ [][Next]_vars

(***************************************************************************)
(* Overlapping requests.  app.run serves each request on a thread of its   *)
(* own, so a /api/chat request can be received, with the session loaded    *)
(* from its cookie, while another request is served, and can return, with  *)
(* its session written to the cookie, after that request has returned.     *)
(***************************************************************************)
ChatArrive ==
    /\ other.pc = "none"
    /\ nreq < MaxRequests
    /\ \E s \in Sessions, body \in Bodies :
           other' = [NewRequest("chat", s, body) EXCEPT !.pc = "running"]
    /\ nreq' = nreq + 1
    /\ UNCHANGED <<llm, vector_store, cookie, req>>

ChatReturn ==
    /\ other.pc = "running"
    /\ \E search \in SearchOutcomes, invoke \in InvokeOutcomes :
           other' = [chat_view([other EXCEPT !.pc = "complete"], search, invoke)
                        EXCEPT !.overlap = IF req.xid > other.xid THEN req.xid ELSE 0]
    /\ cookie' = [cookie EXCEPT ![other.sid] = other'.session]
    /\ UNCHANGED <<llm, vector_store, req, nreq>>

NextOverlap ==
    \/ Next
    \/ ChatArrive
    \/ ChatReturn

SpecOverlap == Init /\ [][NextOverlap]_vars

(***************************************************************************)
(* Vocabulary of the properties.                                           *)
(***************************************************************************)
Completed == req.pc = "complete"

IsExchange == req.endpoint \in {"stream", "chat"}

\* the request ended without error: a 200 answer and, for a stream, the
\* done event
Succeeded == Completed /\ IsExchange /\ req.status = 200 /\ ~req.raised

Failed == Completed /\ IsExchange /\ ~Succeeded

\* the history the request found, and the history of its session object
HistoryBefore == History(req.pre)
HistoryAfter == History(req.session)

\* the history a later request of session s will find
HistorySeenNext(s) == History(cookie[s])

TokenEvents == SelectSeq(req.events, LAMBDA e : DOMAIN e = {"token"})

RECURSIVE Concat(_)
Concat(texts) == IF texts = <<>> THEN <<>> ELSE Head(texts) \o Concat(Tail(texts))

\* the text the client received
ReceivedText == Concat([i \in 1..Len(TokenEvents) |-> TokenEvents[i].token])

\* the full response text of a successful request
ResponseText == IF req.endpoint = "chat" THEN req.response.response ELSE ReceivedText

IsSuffix(t, s) == Len(t) <= Len(s) /\ SubSeq(s, Len(s) - Len(t) + 1, Len(s)) = t

(***************************************************************************)
(* C1: whatever requests were served, in whatever order and with whatever  *)
(* outcome, no session history holds more than 20 turns: neither the one   *)
(* a request works on nor the one a session keeps between requests.        *)
(***************************************************************************)
C1_HistoryAtMost20 ==
    /\ Len(HistoryAfter) <= 20
    /\ \A s \in Sessions : Len(HistorySeenNext(s)) <= 20

\* an exchange on a full history has been stored
C1_Witness ==
    /\ Succeeded
    /\ req.endpoint = "chat"
    /\ Len(HistoryBefore) = 20
    /\ Len(HistorySeenNext(req.sid)) = 20
    /\ HistorySeenNext(req.sid) # HistoryBefore

(***************************************************************************)
(* C2: a request to /api/stream or /api/chat that ends without error has   *)
(* appended exactly two turns to the history of its session object: the    *)
(* last but one is (User, trimmed message), the last is (Assistant, full   *)
(* response text), and everything before them was there before.  For       *)
(* /api/chat this history is also the one the session keeps.               *)
(***************************************************************************)
IsTrimOf(t, raw) ==
    \E i, j \in 0..Len(raw) :
        /\ i + j <= Len(raw)
        /\ t = SubSeq(raw, i + 1, Len(raw) - j)
        /\ \A k \in 1..i : raw[k] \in Whitespace
        /\ \A k \in (Len(raw) - j + 1)..Len(raw) : raw[k] \in Whitespace
        /\ t # <<>> => (t[1] \notin Whitespace /\ t[Len(t)] \notin Whitespace)

StreamDone == Succeeded /\ req.endpoint = "stream"

C3_StreamTurnsSeenByNextRequest ==
    [][(/\ StreamDone
        /\ req'.xid = req.xid + 1
        /\ req'.sid = req.sid
        /\ req'.messages # <<>>)
       => LET h == History(req.session)
          IN IsSuffix(RenderHistory(LastN(h, 2)), req'.messages[2].chat_history)]_vars

(***************************************************************************)
(* C4: a message that contains one of the eleven keywords, whatever the    *)
(* case of its letters, gets the disclaimer: a successful request stores   *)
(* an Assistant turn made of the generated text followed by the disclaimer *)
(* text, which so occurs once, and a stream emits the disclaimer as one    *)
(* more token event after the generated ones.  A message without any       *)
(* keyword gets the generated text alone and no disclaimer event.          *)
(***************************************************************************)
FixedKeywords ==
    {<<"d", "i", "a", "g", "n", "o", "s", "e">>,
     <<"t", "r", "e", "a", "t", "m", "e", "n", "t">>,
     <<"m", "e", "d", "i", "c", "i", "n", "e">>,
     <<"d", "r", "u", "g">>,
     <<"s", "y", "m", "p", "t", "o", "m">>,
     <<"p", "a", "i", "n">>,
     <<"s", "i", "c", "k">>,
     <<"d", "i", "s", "e", "a", "s", "e">>,
     <<"i", "n", "f", "e", "c", "t", "i", "o", "n">>,
     <<"f", "e", "v", "e", "r">>,
     <<"c", "a", "n", "c", "e", "r">>}

SameLetter(a, b) ==
    \/ a = b
    \/ \E i \in 1..Len(UpperCase) : {a, b} = {UpperCase[i], LowerCase[i]}

MentionsKeyword(msg) ==
    \E kw \in FixedKeywords : \E i \in 1..(Len(msg) - Len(kw) + 1) :
        \A j \in 1..Len(kw) : SameLetter(msg[i + j - 1], kw[j])

Occurrences(t, s) ==
    Cardinality({i \in 1..(Len(s) - Len(t) + 1) : SubSeq(s, i, i + Len(t) - 1) = t})

NonEmpty(texts) == SelectSeq(texts, LAMBDA t : t # <<>>)

\* the token events of the non-empty tokens the completion service produced
GeneratedEvents ==
    LET tokens == NonEmpty(req.produced)
    IN [i \in 1..Len(tokens) |-> [token |-> tokens[i]]]

GeneratedText == Concat(req.produced)

StoredAnswer == HistoryAfter[Len(HistoryAfter)].content

BlankMessage ==
    /\ req.body.kind \in {"message", "nokey"}
    /\ \A i \in 1..Len(req.body.message) : req.body.message[i] \in Whitespace

C5_BlankRejected ==
    (IsExchange /\ BlankMessage) =>
        /\ Completed
        /\ req.status \in {400, 503}
        /\ req.response.success = FALSE
        /\ req.searches = 0
        /\ req.llm_calls = 0
        /\ req.events = <<>>
        /\ req.session = req.pre
        /\ cookie[req.sid] = req.pre

\* a whitespace-only message was rejected by /api/stream on a session with history
C5_Witness ==
    /\ req.endpoint = "stream"
    /\ req.body.message = MsgBlank
    /\ req.status = 400
    /\ Len(HistoryBefore) = 20

(***************************************************************************)
(* C6: on /api/stream and /api/chat a message that is empty after trimming *)
(* is answered 400, a request made while the completion service is not     *)
(* initialised is answered 503, and 500 is answered only after an          *)
(* unexpected error.                                                       *)
(***************************************************************************)
C6_StatusOfRequest ==
    (Completed /\ IsExchange) =>
        /\ BlankMessage => req.status = 400
        /\ ~llm => req.status = 503
        /\ req.status = 500 => req.raised

(***************************************************************************)
(* C6 as amended: the availability of the completion service is checked    *)
(* first.  Without the service every request is answered 503, whatever its *)
(* message; with it, a message that is empty after trimming is answered    *)
(* 400; 500 is answered only after an unexpected error, with the service   *)
(* available and a message that is not empty.                              *)
(***************************************************************************)
C6_StatusOfRequestAmended ==
    (Completed /\ IsExchange) =>
        /\ req.status \in {200, 400, 500, 503}
        /\ req.status = 503 <=> ~llm
        /\ req.status = 400 <=> (llm /\ BlankMessage)
        /\ req.status = 500 => (req.raised /\ llm /\ ~BlankMessage)
        /\ (req.status = 500 /\ req.endpoint = "stream") => req.body.kind \notin {"message", "nokey"}

\* an empty message sent while the completion service is not initialised
C6_Witness ==
    /\ Completed
    /\ IsExchange
    /\ BlankMessage
    /\ ~llm
    /\ req.status = 503

(***************************************************************************)
(* C7: when the completion service raises during a stream, the client has  *)
(* received the token events of the non-empty tokens produced so far, in   *)
(* order, then one error event and nothing else, and the session history   *)
(* is what it was before the request.                                      *)
(***************************************************************************)
StreamBroken == Completed /\ req.endpoint = "stream" /\ req.status = 200 /\ req.raised

C7_MidStreamFailure ==
    StreamBroken =>
        /\ req.events = GeneratedEvents \o <<[error |-> ErrorText]>>
        /\ HistoryAfter = HistoryBefore
        /\ HistorySeenNext(req.sid) = HistoryBefore

\* the service raised after one token of a stream that would get the disclaimer
C7_Witness ==
    /\ StreamBroken
    /\ Len(GeneratedEvents) = 1
    /\ MentionsKeyword(req.user_message)
    /\ Len(HistoryBefore) = 18

NewTurns ==
    <<Turn(User, req.user_message, req.xid), Turn(Assistant, ResponseText, req.xid)>>

IsPairs(h) ==
    /\ Len(h) % 2 = 0
    /\ \A i \in 1..Len(h) :
           i % 2 = 1 => /\ h[i].role = User
                        /\ h[i + 1].role = Assistant
                        /\ h[i + 1].xid = h[i].xid

C10_UserAssistantPairs ==
    /\ IsPairs(HistoryAfter)
    /\ \A s \in Sessions : IsPairs(HistorySeenNext(s))

\* a second exchange was stored on a history the first exchange had filled
C10_Witness ==
    /\ Succeeded
    /\ req.xid = 2
    /\ Len(HistoryBefore) = 20
    /\ HistoryBefore[20].xid = 1
    /\ Len(HistorySeenNext(req.sid)) = 20

(***************************************************************************)
(* C11: /api/clear answers with success and leaves an empty history,       *)
(* whatever the history was; a second /api/clear right after the first, on *)
(* the same session, gives the same answer and the same empty history.     *)
(***************************************************************************)
C11_ClearIdempotent ==
    [][(req'.endpoint = "clear" /\ req'.xid = req.xid + 1) =>
          /\ req'.status = 200
          /\ req'.response.success = TRUE
          /\ ~req'.raised
          /\ History(req'.session) = <<>>
          /\ History(cookie'[req'.sid]) = <<>>
          /\ (req.endpoint = "clear" /\ req.sid = req'.sid) =>
                 /\ cookie' = cookie
                 /\ req'.session = req.session
                 /\ req'.response = req.response]_vars

\* the second of two clears in a row on the same session
C11_Witness ==
    /\ req.endpoint = "clear"
    /\ req.prev = [endpoint |-> "clear", sid |-> req.sid]
    /\ req.status = 200
    /\ HistoryBefore = <<>>
    /\ HistorySeenNext(req.sid) = <<>>

(***************************************************************************)
(* C12: when the similarity search raises, or there is no vector store,    *)
(* the request goes on to the completion service with the fixed context    *)
(* placeholder in its prompt, never an empty context, and no error of the  *)
(* retrieval reaches the client: the request fails only if the completion  *)
(* service itself raises.                                                  *)
(***************************************************************************)
NoRetrieval == IsExchange /\ req.retrieval \in {"raised", "unavailable"}

C12_RetrievalFailureAbsorbed ==
    NoRetrieval =>
        /\ req.searches = IF req.retrieval = "raised" THEN 1 ELSE 0
        /\ Len(req.messages) = 2
        /\ req.messages[2].context = NoDocumentsText
        /\ req.messages[2].context # <<>>
        /\ req.messages[2].question = req.user_message
        /\ req.endpoint = "stream" => req.status = 200
        /\ req.endpoint = "chat" =>
               /\ req.llm_calls = 1
               /\ req.status \in {200, 500}
               /\ req.status = 200 <=> ~req.raised
        /\ (req.endpoint = "stream" /\ Completed) => req.llm_calls = 1

\* a stream whose similarity search raised has ended with the done event
C12_Witness ==
    /\ StreamDone
    /\ req.retrieval = "raised"
    /\ req.searches = 1
    /\ Len(GeneratedEvents) = 2

(***************************************************************************)
(* C13: a stream that the client leaves before it is fully delivered, the  *)
(* done event included, does not change the session history: the history  *)
(* of its session holds no User or Assistant turn of that request.         *)
(***************************************************************************)
Aborted == req.endpoint = "stream" /\ req.pc = "aborted"

IsTerminal(e) == DOMAIN e = {"done"} \/ DOMAIN e = {"error"}

C14_OneTerminalEvent ==
    req.endpoint = "stream" =>
        /\ \A i \in 1..Len(req.events) :
               /\ Cardinality(DOMAIN req.events[i]) = 1
               /\ DOMAIN req.events[i] \subseteq {"token", "done", "error"}
               /\ IsTerminal(req.events[i]) => i = Len(req.events)
        /\ Cardinality({i \in 1..Len(req.events) : IsTerminal(req.events[i])}) <= 1
        /\ (req.pc \in {"streaming", "disclaimer"}) =>
               \A i \in 1..Len(req.events) : ~IsTerminal(req.events[i])

\* a stream that ended with an error event after two token events
C14_Witness ==
    /\ StreamBroken
    /\ Len(req.events) = 3
    /\ DOMAIN req.events[3] = {"error"}
    /\ DOMAIN req.events[1] = {"token"}

(***************************************************************************)
(* C15: a request to /api/chat or /api/stream that fails (no completion    *)
(* service, empty message, failure of the generation, unexpected error)    *)
(* leaves the turns of the session as they were, in the request and for    *)
(* the requests that follow, and its answer cannot be taken for a success: *)
(* an error status with success false and an error text, or a stream that  *)
(* ends with an error event and no done event.                             *)
(***************************************************************************)
ErrorAnswer ==
    /\ req.status \in {400, 500, 503}
    /\ req.response.success = FALSE
    /\ "error" \in DOMAIN req.response
    /\ req.events = <<>>

ErrorStream ==
    /\ req.endpoint = "stream"
    /\ req.status = 200
    /\ req.events # <<>>
    /\ DOMAIN req.events[Len(req.events)] = {"error"}
    /\ \A i \in 1..Len(req.events) : DOMAIN req.events[i] # {"done"}

C15_FailureKeepsHistory ==
    Failed =>
        /\ HistoryAfter = HistoryBefore
        /\ HistorySeenNext(req.sid) = HistoryBefore
        /\ ErrorAnswer \/ ErrorStream

\* /api/chat failed in the completion service, on a session with history
C15_Witness ==
    /\ Failed
    /\ req.endpoint = "chat"
    /\ req.status = 500
    /\ req.llm_calls = 1
    /\ Len(HistoryBefore) = 18

(***************************************************************************)
(* C16: from the same session, with the same body, and with the blocking   *)
(* result equal to the concatenation of the streamed tokens, /api/chat and *)
(* a stream that runs to its done event end with the same history in their *)
(* session, and one rejects a body exactly when the other does, with the   *)
(* same status.                                                            *)
(***************************************************************************)
RECURSIVE RunChunks(_)
\* generate() run through all the chunks of its stream
RunChunks(r) == IF r.stream = <<>> THEN r ELSE RunChunks(OnChunk(r, Head(r.stream)))

\* generate() run to its done event
RunStream(r) ==
    LET exhausted == OnExhausted(RunChunks(r))
    IN IF exhausted.pc = "disclaimer" THEN OnSave(exhausted) ELSE exhausted

HistoryLine(turn) == turn.role \o <<":", " ">> \o turn.content \o <<"\n">>

ExpectedHistoryText ==
    LET h == HistoryBefore
        k == IF Len(h) < 6 THEN Len(h) ELSE 6
    IN IF k = 0 THEN NoHistoryText
       ELSE Concat([i \in 1..k |-> HistoryLine(h[Len(h) - k + i])])

C17_PromptHistory ==
    (IsExchange /\ req.messages # <<>>) =>
        /\ req.messages[2].chat_history = ExpectedHistoryText
        /\ req.messages[2].question = req.user_message
        /\ \A i \in 1..Len(HistoryBefore) : HistoryBefore[i].xid # req.xid

\* a successful request on a history of 20 turns: six of them in the prompt
C17_Witness ==
    /\ Succeeded
    /\ Len(HistoryBefore) = 20
    /\ req.messages[2].chat_history # NoHistoryText
    /\ HistoryAfter[20].xid = req.xid

(***************************************************************************)
(* Overlapping exchanges                                                   *)
(***************************************************************************)
\* the second request answered with success, and the request it ran
\* alongside, a successful /api/chat of the same session, was received
\* after it and returned before it
OverlappedSuccesses ==
    /\ other.pc = "complete"
    /\ other.status = 200
    /\ other.overlap # 0
    /\ req.xid = other.overlap
    /\ req.endpoint = "chat"
    /\ Succeeded
    /\ req.sid = other.sid

HasTurnsOf(h, x) ==
    /\ \E i \in 1..Len(h) : h[i].role = User /\ h[i].xid = x
    /\ \E i \in 1..Len(h) : h[i].role = Assistant /\ h[i].xid = x

\* C18: when two successful exchanges of one session overlap in time, the
\* history of the session afterwards holds the User and the Assistant turn
\* of both of them (the four turns fit under the 20-entry cap), so that no
\* update is lost.
C18_NoLostUpdate ==
    OverlappedSuccesses =>
        /\ HasTurnsOf(HistorySeenNext(req.sid), req.xid)
        /\ HasTurnsOf(HistorySeenNext(req.sid), other.xid)
(***************************************************************************)
(* Sessions are apart                                                      *)
(***************************************************************************)
\* the sessions the requests acting in a step belong to
ActingSessions ==
    (IF req' # req THEN {req'.sid} ELSE {}) \cup (IF other' # other THEN {other'.sid} ELSE {})

\* C19: a step of a stream, chat or clear request of one session, taken
\* between steps of requests of other sessions, leaves the history of every
\* other session as it was.
C19_OtherSessionsUnchanged ==
    [][\A s \in Sessions \ ActingSessions :
           HistorySeenNext(s)' = HistorySeenNext(s)]_vars

\* a request of session s1 was served after an exchange of session s2 had
\* left two turns in the history of s2
C19_Witness ==
    /\ req.xid = 2
    /\ req.sid = "s1"
    /\ req.prev.sid = "s2"
    /\ req.prev.endpoint \in {"stream", "chat"}
    /\ req.endpoint \in {"stream", "chat", "clear"}
    /\ Completed
    /\ Len(HistorySeenNext("s2")) = 2
=============================================================================
